---- MODULE Spec2Model ----
(***************************************************************************)
(* trueproduct-tracker: the authenticity-verification path.                *)
(*                                                                         *)
(*   src/lib/hash.ts        generateProductHash, verifyProductHash,        *)
(*                          isProductExpired, encodeQRPayload,             *)
(*                          decodeQRPayload                                *)
(*   pages/ScanProduct      verifyProduct, recordScan, handleQRScan,       *)
(*                          handleManualSearch (src/unnamed/part_006)      *)
(*   pages/admin/ProductManagement   handleSubmit, handleDelete            *)
(*   App                    ProtectedRoute (src/unnamed/part_001)          *)
(*                                                                         *)
(* A JavaScript string is a sequence of code points (naturals); a          *)
(* JavaScript value is a record [t, s, kids].                              *)
(***************************************************************************)
EXTENDS Integers, Sequences, FiniteSets, TLC

VARIABLES
  products,            \* table products: a set of rows, product_no unique
  scans,               \* table scans: the rows in insertion order
  now,                 \* the clock
  user,                \* useAuth().user of the mounted scan page
  productNo,           \* useState productNo (a JavaScript value)
  verificationStatus,  \* useState verificationStatus
  productDetails,      \* useState productDetails
  loading,             \* useState loading
  calls,               \* the verifyProduct calls started, in order
  codec,               \* the last codec application (SpecCodec only)
  scanner,             \* the QRScanner component (SpecScanner only)
  canon                \* the last two canonical texts built (SpecCanon only)

(***************************************************************************)
(* Characters and string literals                                          *)
(***************************************************************************)

\* The printable ASCII characters, code points 32..126, in order (code point
\* 96 is spelled GRAVE).
AsciiTable ==
  << " ", "!", "\"", "#", "$", "%", "&", "'", "(", ")", "*", "+", ",", "-", ".", "/",
     "0", "1", "2", "3", "4", "5", "6", "7", "8", "9", ":", ";", "<", "=", ">", "?",
     "@", "A", "B", "C", "D", "E", "F", "G", "H", "I", "J", "K", "L", "M", "N", "O",
     "P", "Q", "R", "S", "T", "U", "V", "W", "X", "Y", "Z", "[", "\\", "]", "^", "_",
     "GRAVE", "a", "b", "c", "d", "e", "f", "g", "h", "i", "j", "k", "l", "m", "n", "o",
     "p", "q", "r", "s", "t", "u", "v", "w", "x", "y", "z", "{", "|", "}", "~" >>

\* The code point of a printable ASCII character.
Chr(c) == 31 + (CHOOSE i \in 1..Len(AsciiTable) : AsciiTable[i] = c)

\* A string literal, written as a tuple of characters.
Str(cs) == [i \in 1..Len(cs) |-> Chr(cs[i])]

\* The result of a call that may throw.
Returned(v) == [ok |-> TRUE, v |-> v]
Threw == [ok |-> FALSE, v |-> <<>>]

\* The concatenation of a sequence of strings.
RECURSIVE JoinAll(_)
JoinAll(parts) ==
  IF Len(parts) = 0 THEN <<>>
  ELSE IF Len(parts) = 1 THEN parts[1]
  ELSE LET h == Len(parts) \div 2
       IN  JoinAll(SubSeq(parts, 1, h)) \o JoinAll(SubSeq(parts, h + 1, Len(parts)))

Min(S) == CHOOSE m \in S : \A k \in S : m <= k
Max(S) == CHOOSE m \in S : \A k \in S : k <= m

(***************************************************************************)
(* btoa / atob (the platform's base64, as hash.ts:42 and hash.ts:47 use it)*)
(***************************************************************************)

\* The base64 character of a 6-bit value: A-Z, a-z, 0-9, +, /.
B64Char(v) ==
  IF v < 26 THEN 65 + v
  ELSE IF v < 52 THEN 97 + (v - 26)
  ELSE IF v < 62 THEN 48 + (v - 52)
  ELSE IF v = 62 THEN 43 ELSE 47

\* Is the code point a character of the base64 alphabet?
IsB64(c) ==
  \/ c \in 65..90
  \/ c \in 97..122
  \/ c \in 48..57
  \/ c = 43
  \/ c = 47

\* The 6-bit value of a base64 character.
B64Val(c) ==
  IF c \in 65..90 THEN c - 65
  ELSE IF c \in 97..122 THEN c - 97 + 26
  ELSE IF c \in 48..57 THEN c - 48 + 52
  ELSE IF c = 43 THEN 62 ELSE 63

\* The four characters of the group of up to three bytes that starts at i.
btoaGroup(b, i) ==
  LET n  == Len(b) - i + 1
      b1 == b[i]
      b2 == IF n >= 2 THEN b[i + 1] ELSE 0
      b3 == IF n >= 3 THEN b[i + 2] ELSE 0
  IN  << B64Char(b1 \div 4),
         B64Char((b1 % 4) * 16 + (b2 \div 16)),
         IF n >= 2 THEN B64Char((b2 % 16) * 4 + (b3 \div 64)) ELSE 61,
         IF n >= 3 THEN B64Char(b3 % 64) ELSE 61 >>

\* btoa(s): throws InvalidCharacterError when s holds a code point above
\* 255, else the padded base64 of the string's code points taken as bytes.
btoa(s) ==
  IF \E i \in 1..Len(s) : s[i] > 255 THEN Threw
  ELSE Returned(JoinAll([g \in 1..((Len(s) + 2) \div 3) |-> btoaGroup(s, 3 * g - 2)]))

\* ASCII whitespace, which atob removes before decoding.
IsAsciiWhitespace(c) == c \in {9, 10, 12, 13, 32}

StripWhitespace(s) ==
  JoinAll([i \in 1..Len(s) |-> IF IsAsciiWhitespace(s[i]) THEN <<>> ELSE <<s[i]>>])

\* With a length divisible by four, one or two trailing '=' are removed.
StripPadding(s) ==
  LET n == Len(s)
  IN  IF n % 4 = 0 /\ n >= 1 /\ s[n] = 61
      THEN IF n >= 2 /\ s[n - 1] = 61 THEN SubSeq(s, 1, n - 2)
           ELSE SubSeq(s, 1, n - 1)
      ELSE s

\* The bytes of the group of two to four characters that starts at i.
atobGroup(s, i) ==
  LET n  == Len(s) - i + 1
      v1 == B64Val(s[i])
      v2 == B64Val(s[i + 1])
      v3 == IF n >= 3 THEN B64Val(s[i + 2]) ELSE 0
      v4 == IF n >= 4 THEN B64Val(s[i + 3]) ELSE 0
      o1 == v1 * 4 + (v2 \div 16)
      o2 == (v2 % 16) * 16 + (v3 \div 4)
      o3 == (v3 % 4) * 64 + v4
  IN  IF n >= 4 THEN <<o1, o2, o3>>
      ELSE IF n = 3 THEN <<o1, o2>>
      ELSE <<o1>>

\* atob(s): the forgiving base64 decode. Throws when, after the whitespace
\* and the padding are removed, the length is 1 modulo 4 or a character is
\* outside the alphabet.
atob(s) ==
  LET t == StripPadding(StripWhitespace(s))
  IN  IF Len(t) % 4 = 1 THEN Threw
      ELSE IF \E i \in 1..Len(t) : ~IsB64(t[i]) THEN Threw
      ELSE Returned(JoinAll([g \in 1..((Len(t) + 3) \div 4) |-> atobGroup(t, 4 * g - 3)]))

(***************************************************************************)
(* JavaScript values, JSON.stringify and JSON.parse (hash.ts:42, hash.ts:48)*)
(***************************************************************************)

\* A JavaScript value: t is its type tag, s its text (a string's content, a
\* number's literal), kids an array's elements or an object's members in
\* source order (a member is a value tagged "member" whose s is the key and
\* whose one kid is the value).
JSValue(t, s, kids) == [t |-> t, s |-> s, kids |-> kids]
JSNull      == JSValue("null", <<>>, <<>>)
JSUndefined == JSValue("undefined", <<>>, <<>>)
JSTrue      == JSValue("true", <<>>, <<>>)
JSFalse     == JSValue("false", <<>>, <<>>)
JSString(s) == JSValue("string", s, <<>>)
JSNumber(lit) == JSValue("number", lit, <<>>)
JSArray(elems) == JSValue("array", <<>>, elems)
JSObject(members) == JSValue("object", <<>>, members)
JSMember(k, v) == JSValue("member", k, <<v>>)

\* JSON.stringify's string quoting: '"' and '\'
\* are escaped with a backslash; the model's strings hold no control
\* characters and no lone surrogates, which are the other escaped cases.
JSONEscape(s) ==
  JoinAll([i \in 1..Len(s) |-> IF s[i] \in {34, 92} THEN <<92, s[i]>> ELSE <<s[i]>>])

JSONQuote(s) == <<34>> \o JSONEscape(s) \o <<34>>

\* JSON.stringify of a QRPayload {hash, product_no}, both strings, keys in
\* insertion order.
JSONStringifyPayload(payload) ==
  Str(<<"{", "\"", "h", "a", "s", "h", "\"", ":">>)
  \o JSONQuote(payload.hash)
  \o Str(<<",", "\"", "p", "r", "o", "d", "u", "c", "t", "_", "n", "o", "\"", ":">>)
  \o JSONQuote(payload.product_no)
  \o Str(<<"}">>)

\* A parse step's result: ok, the value, and the index after it.
ParseOK(v, next) == [ok |-> TRUE, v |-> v, next |-> next]
ParseFail == [ok |-> FALSE, v |-> JSUndefined, next |-> 0]

IsJSONWhitespace(c) == c \in {9, 10, 13, 32}
IsDigit(c) == c \in 48..57
IsHexDigit(c) == c \in 48..57 \/ c \in 65..70 \/ c \in 97..102
HexVal(c) ==
  IF c \in 48..57 THEN c - 48
  ELSE IF c \in 65..70 THEN c - 65 + 10
  ELSE c - 97 + 10

At(s, i) == IF i >= 1 /\ i <= Len(s) THEN s[i] ELSE -1

RECURSIVE SkipWhitespace(_, _)
SkipWhitespace(s, i) ==
  IF IsJSONWhitespace(At(s, i)) THEN SkipWhitespace(s, i + 1) ELSE i

RECURSIVE SkipDigits(_, _)
SkipDigits(s, i) ==
  IF IsDigit(At(s, i)) THEN SkipDigits(s, i + 1) ELSE i

\* Does the literal lit start at index i of s?
StartsWith(s, i, lit) ==
  /\ i + Len(lit) - 1 <= Len(s)
  /\ \A k \in 1..Len(lit) : s[i + k - 1] = lit[k]

\* number: -? (0 | [1-9][0-9]*) (. [0-9]+)? ([eE] [+-]? [0-9]+)?
ParseNumber(s, i) ==
  LET i1 == IF At(s, i) = 45 THEN i + 1 ELSE i
      i2 == IF At(s, i1) = 48 THEN i1 + 1
            ELSE IF IsDigit(At(s, i1)) THEN SkipDigits(s, i1)
            ELSE 0
      i3 == IF i2 = 0 THEN 0
            ELSE IF At(s, i2) = 46
                 THEN IF IsDigit(At(s, i2 + 1)) THEN SkipDigits(s, i2 + 1) ELSE 0
                 ELSE i2
      e1 == IF At(s, i3 + 1) \in {43, 45} THEN i3 + 2 ELSE i3 + 1
      i4 == IF i3 = 0 THEN 0
            ELSE IF At(s, i3) \in {69, 101}
                 THEN IF IsDigit(At(s, e1)) THEN SkipDigits(s, e1) ELSE 0
                 ELSE i3
  IN  IF i4 = 0 THEN ParseFail
      ELSE ParseOK(JSNumber(SubSeq(s, i, i4 - 1)), i4)

\* The number of backslashes that directly precede index j, from index i on.
BackslashRun(s, i, j) ==
  LET stops == {k \in i..(j - 1) : s[k] # 92}
  IN  (j - 1) - (IF stops = {} THEN i - 1 ELSE Max(stops))

\* Does an escape sequence start at index k of the string body that starts
\* at index i?
IsEscapeStart(s, i, k) ==
  k >= i /\ At(s, k) = 92 /\ BackslashRun(s, i, k) % 2 = 0

\* Is the escape sequence that starts at index k well formed?
ValidEscape(s, k) ==
  \/ At(s, k + 1) \in {34, 92, 47, 98, 102, 110, 114, 116}
  \/ At(s, k + 1) = 117 /\ \A m \in 2..5 : IsHexDigit(At(s, k + m))

\* The character an escape sequence at index k stands for.
EscapeValue(s, k) ==
  LET e == s[k + 1]
  IN  IF e \in {34, 92, 47} THEN e
      ELSE IF e = 98 THEN 8
      ELSE IF e = 102 THEN 12
      ELSE IF e = 110 THEN 10
      ELSE IF e = 114 THEN 13
      ELSE IF e = 116 THEN 9
      ELSE HexVal(s[k + 2]) * 4096 + HexVal(s[k + 3]) * 256
           + HexVal(s[k + 4]) * 16 + HexVal(s[k + 5])

\* What index k of a string body contributes to the string's content.
StringPiece(s, i, k) ==
  IF IsEscapeStart(s, i, k) THEN <<EscapeValue(s, k)>>
  ELSE IF IsEscapeStart(s, i, k - 1) THEN <<>>
  ELSE IF \E m \in 2..5 : IsEscapeStart(s, i, k - m) /\ s[k - m + 1] = 117 THEN <<>>
  ELSE <<s[k]>>

\* A string literal whose body starts at index i (after the opening quote):
\* it ends at the first quote that no backslash escapes; no control
\* character and no malformed escape may precede that.
ParseStringBody(s, i) ==
  LET close == {j \in i..Len(s) : s[j] = 34 /\ BackslashRun(s, i, j) % 2 = 0}
      e     == Min(close)
  IN  IF close = {} THEN ParseFail
      ELSE IF \E k \in i..(e - 1) :
                \/ s[k] < 32
                \/ IsEscapeStart(s, i, k) /\ ~ValidEscape(s, k)
      THEN ParseFail
      ELSE ParseOK(JSString(JoinAll([k \in 1..(e - i) |-> StringPiece(s, i, i + k - 1)])),
                   e + 1)

RECURSIVE ParseValue(_, _)
RECURSIVE ParseElements(_, _, _)
RECURSIVE ParseMembers(_, _, _)

\* value: whitespace is skipped by the callers; i is at the value's first
\* character.
ParseValue(s, i) ==
  LET c == At(s, i)
  IN  IF c = 123
      THEN LET j == SkipWhitespace(s, i + 1)
           IN  IF At(s, j) = 125 THEN ParseOK(JSObject(<<>>), j + 1)
               ELSE ParseMembers(s, j, <<>>)
      ELSE IF c = 91
      THEN LET j == SkipWhitespace(s, i + 1)
           IN  IF At(s, j) = 93 THEN ParseOK(JSArray(<<>>), j + 1)
               ELSE ParseElements(s, j, <<>>)
      ELSE IF c = 34 THEN ParseStringBody(s, i + 1)
      ELSE IF c = 45 \/ IsDigit(c) THEN ParseNumber(s, i)
      ELSE IF StartsWith(s, i, Str(<<"t", "r", "u", "e">>)) THEN ParseOK(JSTrue, i + 4)
      ELSE IF StartsWith(s, i, Str(<<"f", "a", "l", "s", "e">>)) THEN ParseOK(JSFalse, i + 5)
      ELSE IF StartsWith(s, i, Str(<<"n", "u", "l", "l">>)) THEN ParseOK(JSNull, i + 4)
      ELSE ParseFail

\* elements of an array, i at the first character of the next element.
ParseElements(s, i, acc) ==
  LET r == ParseValue(s, i)
      j == SkipWhitespace(s, r.next)
  IN  IF ~r.ok THEN ParseFail
      ELSE IF At(s, j) = 44
           THEN ParseElements(s, SkipWhitespace(s, j + 1), Append(acc, r.v))
      ELSE IF At(s, j) = 93 THEN ParseOK(JSArray(Append(acc, r.v)), j + 1)
      ELSE ParseFail

\* members of an object, i at the opening quote of the next key.
ParseMembers(s, i, acc) ==
  LET k == IF At(s, i) = 34 THEN ParseStringBody(s, i + 1) ELSE ParseFail
      c == SkipWhitespace(s, k.next)
      r == ParseValue(s, SkipWhitespace(s, c + 1))
      j == SkipWhitespace(s, r.next)
  IN  IF ~k.ok \/ At(s, c) # 58 THEN ParseFail
      ELSE IF ~r.ok THEN ParseFail
      ELSE IF At(s, j) = 44
           THEN ParseMembers(s, SkipWhitespace(s, j + 1), Append(acc, JSMember(k.v.s, r.v)))
      ELSE IF At(s, j) = 125
           THEN ParseOK(JSObject(Append(acc, JSMember(k.v.s, r.v))), j + 1)
      ELSE ParseFail

\* JSON.parse(text): throws SyntaxError unless the whole text is one JSON
\* value surrounded by optional whitespace.
JSONParse(text) ==
  LET r == ParseValue(text, SkipWhitespace(text, 1))
  IN  IF r.ok /\ SkipWhitespace(text, r.next) = Len(text) + 1 THEN Returned(r.v)
      ELSE Threw

\* value.name as JavaScript evaluates it for the property names the page
\* reads ("hash", "product_no"): an object's own member (the last one of
\* that key), and undefined on any other value.
GetProp(value, name) ==
  LET idx == {i \in 1..Len(value.kids) : value.kids[i].s = name}
  IN  IF value.t = "object" /\ idx # {}
      THEN value.kids[CHOOSE i \in idx : \A k \in idx : k <= i].kids[1]
      ELSE JSUndefined

\* Is a number literal zero (its mantissa holds no non-zero digit)?
IsZeroLiteral(lit) ==
  LET stop == {i \in 1..Len(lit) : lit[i] \in {69, 101}}
      last == IF stop = {} THEN Len(lit) ELSE (CHOOSE i \in stop : TRUE) - 1
  IN  \A i \in 1..last : lit[i] \notin 49..57

\* JavaScript truthiness (the tests `if (payload)`, `if (qrHash)`).
Truthy(value) ==
  CASE value.t \in {"null", "undefined", "false"} -> FALSE
    [] value.t = "string" -> value.s # <<>>
    [] value.t = "number" -> ~IsZeroLiteral(value.s)
    [] OTHER -> TRUE

(***************************************************************************)
(* PayloadCodec: encodeQRPayload, decodeQRPayload (hash.ts:36-52)          *)
(***************************************************************************)

\* interface QRPayload { hash: string; product_no: string }
QRPayload(hash, product_no) == [hash |-> hash, product_no |-> product_no]

\* The JavaScript object a QRPayload is.
PayloadObject(payload) ==
  JSObject(<< JSMember(Str(<<"h", "a", "s", "h">>), JSString(payload.hash)),
              JSMember(Str(<<"p", "r", "o", "d", "u", "c", "t", "_", "n", "o">>),
                       JSString(payload.product_no)) >>)

\* encodeQRPayload(payload) = btoa(JSON.stringify(payload)); it has no
\* try/catch, so btoa's exception reaches the caller.
encodeQRPayload(payload) == btoa(JSONStringifyPayload(payload))

\* decodeQRPayload(encoded): atob, then JSON.parse, the parsed value
\* returned as it is (the cast checks nothing); null when either throws.
decodeQRPayload(encoded) ==
  LET decoded == atob(encoded)
      parsed  == JSONParse(decoded.v)
  IN  IF ~decoded.ok THEN JSNull
      ELSE IF ~parsed.ok THEN JSNull
      ELSE parsed.v

(***************************************************************************)
(* FingerprintEngine: generateProductHash, verifyProductHash (hash.ts:2-30)*)
(***************************************************************************)

\* The five canonical attributes, each a string.
Attributes(no, name, brand, mfg, exp) ==
  [product_no |-> no, product_name |-> name, brand |-> brand,
   manufacture_date |-> mfg, expiry_date |-> exp]

\* A faulty variant of dataString: the expiry date is left out.
dataStringNoExpiry(product) ==
  product.product_no \o <<124>> \o product.product_name \o <<124>> \o product.brand
    \o <<124>> \o product.manufacture_date

\* A faulty variant of dataString: the fields are joined with nothing
\* between them.
dataStringUndelimited(product) ==
  product.product_no \o product.product_name \o product.brand
    \o product.manufacture_date \o product.expiry_date

\* hash.ts:9, the template string: the five fields joined by '|'.
dataString(product) ==
  product.product_no \o <<124>> \o product.product_name \o <<124>>
  \o product.brand \o <<124>> \o product.manufacture_date \o <<124>>
  \o product.expiry_date

\* TextEncoder.encode: the UTF-8 bytes of a string of BMP code points.
TextEncodeChar(c) ==
  IF c < 128 THEN <<c>>
  ELSE IF c < 2048 THEN <<192 + (c \div 64), 128 + (c % 64)>>
  ELSE <<224 + (c \div 4096), 128 + ((c \div 64) % 64), 128 + (c % 64)>>

TextEncode(s) == JoinAll([i \in 1..Len(s) |-> TextEncodeChar(s[i])])

\* The length of a SHA-256 digest in bytes.
DigestBytes == 32

\* The sum modulo 256 of the bytes of data at positions k, k + m, k + 2m...
RECURSIVE FoldBytes(_, _, _)
FoldBytes(data, k, m) ==
  IF k > Len(data) THEN 0
  ELSE (data[k] + FoldBytes(data, k + m, m)) % 256

\* crypto.subtle.digest('SHA-256', data) is the platform's; it is modelled by
\* a deterministic function to DigestBytes bytes that is injective on the
\* messages of fewer than DigestBytes bytes (every data string of the model):
\* the length, then the message bytes folded into the remaining positions.
SHA256(data) ==
  [k \in 1..DigestBytes |->
     IF k = 1 THEN Len(data) % 256 ELSE FoldBytes(data, k - 1, DigestBytes - 1)]

HexDigit(v) == IF v < 10 THEN 48 + v ELSE 97 + (v - 10)

\* b.toString(16): no leading zero.
ToString16(b) ==
  IF b < 16 THEN <<HexDigit(b)>> ELSE <<HexDigit(b \div 16), HexDigit(b % 16)>>

\* s.padStart(n, c) for a one-character pad.
RECURSIVE padStart(_, _, _)
padStart(s, n, c) == IF Len(s) >= n THEN s ELSE padStart(<<c>> \o s, n, c)

\* A faulty variant of hashHex: the bytes are not padded to two characters.
hashHexUnpadded(hashArray) ==
  JoinAll([k \in 1..Len(hashArray) |-> ToString16(hashArray[k])])

\* hash.ts:13-14: every digest byte as two lowercase hex characters.
hashHex(hashArray) ==
  JoinAll([k \in 1..Len(hashArray) |-> padStart(ToString16(hashArray[k]), 2, 48)])

\* hash.ts:2-16.
generateProductHash(product) == hashHex(SHA256(TextEncode(dataString(product))))

\* A faulty variant of verifyProductHash: at odd clock readings the
\* recomputation hashes the clock with the attributes.
verifyProductHashDrifting(storedHash, product) ==
  storedHash =
    JSString(IF now % 2 = 1
             THEN hashHex(SHA256(TextEncode(dataString(product)) \o <<now % 256>>))
             ELSE generateProductHash(product))

\* storedHash === computedHash; storedHash is whatever value the caller
\* passes, computedHash a string.
verifyProductHash(storedHash, product) ==
  storedHash = JSString(generateProductHash(product))

(***************************************************************************)
(* Dates and the clock (hash.ts:32-34)                                     *)
(***************************************************************************)

\* Clock ticks per day; an instant is a number of ticks since
\* 2020-01-01T00:00Z.
TicksPerDay == 2

\* The date text of the d-th day (d in 0..8) after 2020-01-01, as the date
\* input and the DATE column give it: "2020-01-0<d+1>".
DateText(d) == Str(<<"2", "0", "2", "0", "-", "0", "1", "-", "0">>) \o <<49 + d>>

\* new Date(text) for such a date text: midnight UTC of that day.
NewDate(text) == (text[Len(text)] - 49) * TicksPerDay

\* A faulty variant of isProductExpired: expired from the expiry instant on.
isProductExpiredNonStrict(expiryDate, clock) == NewDate(expiryDate) <= clock

\* A faulty variant of isProductExpired: the comparison the other way round.
isProductExpiredReversed(expiryDate, clock) == clock < NewDate(expiryDate)

\* new Date(expiryDate) < new Date(), the clock reading now.
isProductExpired(expiryDate, clock) == NewDate(expiryDate) < clock

(***************************************************************************)
(* Bounds and input domains                                                *)
(***************************************************************************)

\* Verifications started on the page.
MaxCalls == 2
\* Verifications in flight at the same time.
MaxInFlight == 1
\* Clock ticks after the page was opened.
MaxTicks == 1
\* The page is opened at the start of 2020-01-02.
Opened == NewDate(DateText(1))

P1    == Str(<<"P", "1">>)
P9    == Str(<<"P", "9">>)
POmega == <<80, 937>>
KeyHash == Str(<<"h", "a", "s", "h">>)
KeyProductNo == Str(<<"p", "r", "o", "d", "u", "c", "t", "_", "n", "o">>)

\* What the administrator may enter in the product form (ProductManagement
\* handleSubmit reads formData): a product number that btoa accepts and one
\* it does not, two expiry dates.
FormProductNos == {P1, POmega}
FormData ==
  {Attributes(no, Str(<<"W">>), Str(<<"A">>), DateText(0), DateText(exp)) :
     no \in FormProductNos, exp \in {1, 3}}

\* generateProductHash and encodeQRPayload on the form's inputs, computed
\* once.
HashPairs == {<<f, generateProductHash(f)>> : f \in FormData}
HashTable(f) == (CHOOSE p \in HashPairs : p[1] = f)[2]
TokenPairs == {<<f, encodeQRPayload(QRPayload(HashTable(f), f.product_no))>> : f \in FormData}
TokenTable(f) == (CHOOSE p \in TokenPairs : p[1] = f)[2]

\* The tokens the administrator's form can issue.
IssuedTokens == {TokenTable(f).v : f \in {g \in FormData : TokenTable(g).ok}}

\* The base64 of the JSON text {"product_no":5}: an object whose product
\* number is a number and which has no fingerprint.
NumberedScan ==
  btoa(<<123, 34>> \o KeyProductNo \o <<34, 58, 53, 125>>).v

\* What a camera or an image may deliver to handleQRScan: every issued
\* token, a token for P1 with an empty fingerprint, a registered and an
\* unregistered bare product number, the base64 of the JSON text 5, and
\* the base64 of an object with a number for its product number.
ScanInputs ==
  IssuedTokens
  \cup {encodeQRPayload(QRPayload(<<>>, P1)).v, P1, P9, Str(<<"N", "Q", "=", "=">>),
        NumberedScan}

\* What the user may type in the manual form.
TypedInputs == {Str(<<" ">>), Str(<<" ", "P", "1", " ">>)}

\* The signed-in users the scan page is rendered for.
Users == {"u1"}
NoUser == "none"

(***************************************************************************)
(* State                                                                   *)
(***************************************************************************)

vars == <<products, scans, now, user, productNo, verificationStatus,
          productDetails, loading, calls, codec, scanner, canon>>

pageVars == <<productNo, verificationStatus, productDetails, loading, calls>>

NoCodec == [op |-> "none", hash |-> <<>>, product_no |-> <<>>, input |-> <<>>,
            threw |-> FALSE, token |-> <<>>, result |-> JSUndefined]

\* No canonical text was built yet.
NoCanon == [left |-> <<>>, right |-> <<>>, leftText |-> <<>>, rightText |-> <<>>,
            leftBytes |-> <<>>, rightBytes |-> <<>>]

\* The QRScanner component before the camera is started: lib is the state
\* of the Html5Qrcode object behind scannerRef, isScanning the component's
\* useState, text what the camera is pointed at, delivered the number of
\* onScan calls since the camera was started.
NoScanner == [lib |-> "off", isScanning |-> FALSE, text |-> <<>>, delivered |-> 0]

\* type VerificationStatus = 'original' | 'fake' | 'expired' | 'unknown' | null
Statuses == {"original", "fake", "expired", "unknown"}
NullStatus == "null"

Init ==
  /\ products = {}
  /\ scans = <<>>
  /\ now = Opened
  /\ user \in Users
  /\ productNo = JSString(<<>>)
  /\ verificationStatus = NullStatus
  /\ productDetails = JSNull
  /\ loading = FALSE
  /\ calls = <<>>
  /\ codec = NoCodec
  /\ scanner = NoScanner
  /\ canon = NoCanon

(***************************************************************************)
(* The tables (supabase-js queries of ScanProduct and ProductManagement)   *)
(***************************************************************************)

\* String(value), as the query builder writes a filter value and the
\* insert body a TEXT column, for the values the page can pass: strings,
\* undefined, null, booleans, integer literals and plain objects.
ToText(value) ==
  CASE value.t = "string" -> value.s
    [] value.t = "number" -> value.s
    [] value.t = "undefined" -> Str(<<"u", "n", "d", "e", "f", "i", "n", "e", "d">>)
    [] value.t = "null" -> Str(<<"n", "u", "l", "l">>)
    [] value.t = "true" -> Str(<<"t", "r", "u", "e">>)
    [] value.t = "false" -> Str(<<"f", "a", "l", "s", "e">>)
    [] OTHER -> Str(<<"[", "o", "b", "j", "e", "c", "t", " ", "O", "b", "j", "e", "c", "t", "]">>)

\* A row of products: the columns the verification path reads.
ProductRow(formData, hash) ==
  [product_no |-> formData.product_no, product_name |-> formData.product_name,
   brand |-> formData.brand, manufacture_date |-> formData.manufacture_date,
   expiry_date |-> formData.expiry_date, qr_hash |-> hash]

\* from('products').select('*').eq('product_no', productNumber).single():
\* the one matching row as data, or an error and no data when no row matches.
SelectSingle(table, productNumber) ==
  LET rows == {r \in table : r.product_no = ToText(productNumber)}
  IN  IF Cardinality(rows) = 1
      THEN [error |-> FALSE, data |-> CHOOSE r \in rows : TRUE]
      ELSE [error |-> TRUE, data |-> JSNull]

\* A lookup that fails for an infrastructure reason: an error and no data.
SelectFailed == [error |-> TRUE, data |-> JSNull]

\* A faulty variant of ScanRow: the page sends a timestamp of its own.
ScanRowStamped(productNumber, userId, isFake, result) ==
  [product_no |-> productNumber, user_id |-> userId, is_fake |-> isFake,
   verification_result |-> result, scan_time |-> 0]

\* A row of scans as recordScan submits it (part_006:448-453).
ScanRow(productNumber, userId, isFake, result) ==
  [product_no |-> productNumber, user_id |-> userId, is_fake |-> isFake,
   verification_result |-> result]

\* The commands the policies on scans grant: select (own rows, and all
\* rows for admins) and insert; row level security refuses the others.
ScansGranted == {"SELECT", "INSERT"}

\* The insert policy's WITH CHECK (auth.uid() = user_id).
ScansInsertCheck(row, uid) == row.user_id = uid

\* scans.product_no is TEXT NOT NULL: a row whose product_no is undefined
\* or null is refused.
InsertAccepted(row) == row.product_no.t \notin {"undefined", "null"}

\* The row as the table stores it: the columns id and scan_time take their
\* defaults (the call's number stands for gen_random_uuid(), the clock for
\* now()).
StoredScan(row, c, clock) == row @@ [id |-> c, scan_time |-> clock]

\* A faulty variant of QRArguments: the payload's hash is not passed on.
QRArgumentsNoHash(data, payload) ==
  IF Truthy(payload)
  THEN [productNumber |-> GetProp(payload, KeyProductNo), qrHash |-> JSUndefined]
  ELSE [productNumber |-> JSString(data), qrHash |-> JSUndefined]

\* The arguments handleQRScan passes to verifyProduct for a decoded payload.
QRArguments(data, payload) ==
  IF Truthy(payload)
  THEN [productNumber |-> GetProp(payload, KeyProductNo), qrHash |-> GetProp(payload, KeyHash)]
  ELSE [productNumber |-> JSString(data), qrHash |-> JSUndefined]

\* decodeQRPayload on the scan inputs, computed once.
DecodePairs == {<<d, decodeQRPayload(d)>> : d \in ScanInputs}
DecodeTable(d) == (CHOOSE p \in DecodePairs : p[1] = d)[2]

\* The fingerprints handleQRScan can pass on, and verifyProductHash on them
\* and the attributes a row can hold, computed once.
ScannedHashes == {QRArguments(d, DecodeTable(d)).qrHash : d \in ScanInputs}
VerifyPairs ==
  {<<h, f, verifyProductHash(h, f)>> : h \in ScannedHashes, f \in FormData}
VerifyTable(h, f) == (CHOOSE p \in VerifyPairs : p[1] = h /\ p[2] = f)[3]

(***************************************************************************)
(* ScanProduct: verifyProduct, recordScan (part_006:358-457)               *)
(***************************************************************************)

\* A faulty variant of recordScan: it returns without a request.
recordScanNothing(userId, productNumber, isFake, result) == JSNull

\* recordScan's request: nothing without a user, else the row to insert.
recordScan(userId, productNumber, isFake, result) ==
  IF userId = NoUser THEN JSNull
  ELSE ScanRow(productNumber, userId, isFake, result)

\* part_006:370, `error || !product`.
NotFound(res) == res.error \/ res.data = JSNull

\* part_006:398, `if (qrHash)`.
HashSupplied(qrHash) == Truthy(qrHash)

\* A faulty variant of HashVerdict: the two outcomes exchanged.
HashVerdictSwapped(isValid, qrHash, product) ==
  IF isValid /\ qrHash = JSString(product.qr_hash) THEN "fake" ELSE "original"

\* part_006:407, `isValid && qrHash === product.qr_hash`.
HashVerdict(isValid, qrHash, product) ==
  IF isValid /\ qrHash = JSString(product.qr_hash) THEN "original" ELSE "fake"

\* The five attributes of a row, as verifyProduct passes them on.
RowAttributes(product) ==
  Attributes(product.product_no, product.product_name, product.brand,
             product.manufacture_date, product.expiry_date)

\* A faulty variant of BranchFlag: an unknown product's scan is not flagged.
BranchFlagUnknownClean(branch) == branch \in {"expired", "mismatch"}

\* The flag, the reason and the toast of each branch.
BranchFlag(branch) == branch \in {"notfound", "expired", "mismatch"}
\* A faulty variant of BranchReason: the manual branch reuses the reason of
\* the verified branch.
BranchReasonMerged(branch) ==
  CASE branch = "notfound" -> "Product not found in database"
    [] branch = "expired"  -> "Product expired"
    [] branch = "verified" -> "Hash verified - Original"
    [] branch = "mismatch" -> "Hash mismatch - Fake"
    [] branch = "manual"   -> "Hash verified - Original"
BranchReason(branch) ==
  CASE branch = "notfound" -> "Product not found in database"
    [] branch = "expired"  -> "Product expired"
    [] branch = "verified" -> "Hash verified - Original"
    [] branch = "mismatch" -> "Hash mismatch - Fake"
    [] branch = "manual"   -> "Manual verification - Product exists"
BranchToast(branch) ==
  CASE branch = "notfound" -> "Product Not Found"
    [] branch = "expired"  -> "Product Expired"
    [] branch = "verified" -> "Product Verified!"
    [] branch = "mismatch" -> "Warning: Counterfeit Detected"
    [] branch = "manual"   -> "Product Found"
\* A faulty variant of BranchStatus: the manual branch gives unknown.
BranchStatusManualUnknown(branch) ==
  CASE branch = "notfound" -> "unknown"
    [] branch = "expired"  -> "expired"
    [] branch = "verified" -> "original"
    [] branch = "mismatch" -> "fake"
    [] branch = "manual"   -> "unknown"
BranchStatus(branch) ==
  CASE branch = "notfound" -> "unknown"
    [] branch = "expired"  -> "expired"
    [] branch = "verified" -> "original"
    [] branch = "mismatch" -> "fake"
    [] branch = "manual"   -> "original"

\* A verifyProduct call at its first await.
NewCall(via, data, productNumber, qrHash) ==
  [via |-> via, data |-> data, productNumber |-> productNumber, qrHash |-> qrHash,
   user |-> user, pc |-> "lookup", product |-> JSNull, status |-> NullStatus,
   branch |-> "none", request |-> JSNull, toast |-> "none", clock |-> 0,
   lookup |-> "none", hashed |-> "none", insert |-> "none"]

\* The calls that have not returned.
InFlight == {c \in 1..Len(calls) : calls[c].pc # "done"}

\* verifyProduct up to its first await (part_006:359-368).
verifyProduct(via, data, productNumber, qrHash) ==
  /\ loading' = TRUE
  /\ verificationStatus' = NullStatus
  /\ productDetails' = JSNull
  /\ calls' = Append(calls, NewCall(via, data, productNumber, qrHash))

\* A branch sets the status and calls recordScan (part_006:371-372, 386-387,
\* 408-409, 415-416, 425-426); the call waits for the insert.
TakeBranch(c, branch, product, clock, step, outcome) ==
  /\ verificationStatus' = BranchStatus(branch)
  /\ calls' = [calls EXCEPT ![c] =
       [@ EXCEPT !.pc = "insert", !.branch = branch, !.product = product,
                 !.status = BranchStatus(branch), !.clock = clock, ![step] = outcome,
                 !.request = recordScan(calls[c].user, calls[c].productNumber,
                                        BranchFlag(branch), BranchReason(branch))]]

\* A faulty variant of CatchError: the exception is swallowed without a toast.
CatchErrorSilent(c, step) ==
  /\ loading' = FALSE
  /\ calls' = [calls EXCEPT ![c] = [@ EXCEPT !.pc = "done", ![step] = "throw"]]

\* A faulty variant of CatchError: there is no finally block, the loading
\* flag stays as it is.
CatchErrorKeepsLoading(c, step) ==
  /\ UNCHANGED loading
  /\ calls' = [calls EXCEPT ![c] =
       [@ EXCEPT !.pc = "done", !.toast = "Verification Error", ![step] = "throw"]]

\* The catch and finally blocks (part_006:432-441).
CatchError(c, step) ==
  /\ loading' = FALSE
  /\ calls' = [calls EXCEPT ![c] =
       [@ EXCEPT !.pc = "done", !.toast = "Verification Error", ![step] = "throw"]]

\* A faulty variant of LookupReturns: the product found is not put into the
\* page's product details.
LookupReturnsNoDetails(c, outcome) ==
  /\ c \in 1..Len(calls)
  /\ calls[c].pc = "lookup"
  /\ LET res == IF outcome = "data" THEN SelectSingle(products, calls[c].productNumber)
                ELSE SelectFailed
     IN  IF outcome = "throw"
         THEN CatchError(c, "lookup") /\ UNCHANGED verificationStatus
         ELSE IF NotFound(res)
         THEN TakeBranch(c, "notfound", JSNull, now, "lookup", outcome)
              /\ UNCHANGED loading
         ELSE /\ UNCHANGED loading
              /\ IF isProductExpired(res.data.expiry_date, now)
                 THEN TakeBranch(c, "expired", res.data, now, "lookup", outcome)
                 ELSE IF HashSupplied(calls[c].qrHash)
                 THEN /\ calls' = [calls EXCEPT ![c] =
                            [@ EXCEPT !.pc = "hash", !.product = res.data, !.clock = now,
                                      !.lookup = outcome]]
                      /\ UNCHANGED verificationStatus
                 ELSE TakeBranch(c, "manual", res.data, now, "lookup", outcome)
  /\ UNCHANGED <<products, scans, now, user, productNo, productDetails, codec, scanner, canon>>

\* The lookup answers (part_006:364-405). outcome is what the client
\* returns: the query's result, an error for an infrastructure failure, or
\* an exception.
LookupReturns(c, outcome) ==
  /\ c \in 1..Len(calls)
  /\ calls[c].pc = "lookup"
  /\ LET res == IF outcome = "data" THEN SelectSingle(products, calls[c].productNumber)
                ELSE SelectFailed
     IN  IF outcome = "throw"
         THEN CatchError(c, "lookup") /\ UNCHANGED <<verificationStatus, productDetails>>
         ELSE IF NotFound(res)
         THEN TakeBranch(c, "notfound", JSNull, now, "lookup", outcome)
              /\ UNCHANGED <<productDetails, loading>>
         ELSE /\ productDetails' = res.data
              /\ UNCHANGED loading
              /\ IF isProductExpired(res.data.expiry_date, now)
                 THEN TakeBranch(c, "expired", res.data, now, "lookup", outcome)
                 ELSE IF HashSupplied(calls[c].qrHash)
                 THEN /\ calls' = [calls EXCEPT ![c] =
                            [@ EXCEPT !.pc = "hash", !.product = res.data, !.clock = now,
                                      !.lookup = outcome]]
                      /\ UNCHANGED verificationStatus
                 ELSE TakeBranch(c, "manual", res.data, now, "lookup", outcome)
  /\ UNCHANGED <<products, scans, now, user, productNo, codec, scanner, canon>>

\* A faulty variant of HashReturns: the stored fingerprint is read from the
\* table again when the digest is there, instead of from the row the lookup
\* returned.
HashReturnsRereads(c, outcome) ==
  /\ c \in 1..Len(calls)
  /\ calls[c].pc = "hash"
  /\ IF outcome = "throw"
     THEN CatchError(c, "hashed") /\ UNCHANGED verificationStatus
     ELSE LET isValid == VerifyTable(calls[c].qrHash, RowAttributes(calls[c].product))
              current == {r \in products : r.product_no = calls[c].product.product_no}
              stored  == IF current = {} THEN calls[c].product ELSE CHOOSE r \in current : TRUE
              verdict == HashVerdict(isValid, calls[c].qrHash, stored)
          IN  /\ TakeBranch(c, IF verdict = "original" THEN "verified" ELSE "mismatch",
                            calls[c].product, calls[c].clock, "hashed", outcome)
              /\ UNCHANGED loading
  /\ UNCHANGED <<products, scans, now, user, productNo, productDetails, codec, scanner, canon>>

\* verifyProductHash answers (part_006:399-422): the digest is computed, or
\* crypto.subtle.digest rejects.
HashReturns(c, outcome) ==
  /\ c \in 1..Len(calls)
  /\ calls[c].pc = "hash"
  /\ IF outcome = "throw"
     THEN CatchError(c, "hashed") /\ UNCHANGED verificationStatus
     ELSE LET isValid == VerifyTable(calls[c].qrHash, RowAttributes(calls[c].product))
              verdict == HashVerdict(isValid, calls[c].qrHash, calls[c].product)
          IN  /\ TakeBranch(c, IF verdict = "original" THEN "verified" ELSE "mismatch",
                            calls[c].product, calls[c].clock, "hashed", outcome)
              /\ UNCHANGED loading
  /\ UNCHANGED <<products, scans, now, user, productNo, productDetails, codec, scanner, canon>>

\* A faulty variant of AfterRecordScan: a failed insert reaches
\* verifyProduct's catch block.
AfterRecordScanSurfaced(branch, outcome) ==
  IF outcome \in {"error", "throw"} THEN "Verification Error" ELSE BranchToast(branch)

\* recordScan has returned, whatever the insert did, and the branch shows
\* its toast (part_006:373, 388, 410, 417, 427).
AfterRecordScan(branch, outcome) == BranchToast(branch)

\* What the insert of a call's request can answer: nothing was requested;
\* the row is stored; the client returns an error (ignored by recordScan);
\* the client throws (caught by recordScan, part_006:454-456).
InsertOutcomes(call) ==
  IF call.request = JSNull THEN {"skipped"}
  ELSE IF /\ "INSERT" \in ScansGranted
          /\ ScansInsertCheck(call.request, call.user)
          /\ InsertAccepted(call.request)
  THEN {"ok", "error", "throw"}
  ELSE {"error", "throw"}

\* A faulty variant of InsertReturns: after an insert that returned an
\* error the call asks again.
InsertReturnsRetry(c, outcome) ==
  /\ c \in 1..Len(calls)
  /\ calls[c].pc = "insert"
  /\ outcome \in InsertOutcomes(calls[c])
  /\ scans' = IF outcome = "ok"
              THEN Append(scans, StoredScan(calls[c].request, c, now))
              ELSE scans
  /\ IF outcome = "error"
     THEN /\ calls' = [calls EXCEPT ![c] = [@ EXCEPT !.insert = outcome]]
          /\ UNCHANGED loading
     ELSE /\ calls' = [calls EXCEPT ![c] =
               [@ EXCEPT !.pc = "done",
                         !.toast = AfterRecordScan(calls[c].branch, outcome),
                         !.insert = outcome]]
          /\ loading' = FALSE
  /\ UNCHANGED <<products, now, user, productNo, verificationStatus,
                 productDetails, codec, scanner, canon>>

\* A faulty variant of InsertReturns: the insert is an upsert that removes
\* the user's earlier records of the same product number.
InsertReturnsUpsert(c, outcome) ==
  /\ c \in 1..Len(calls)
  /\ calls[c].pc = "insert"
  /\ outcome \in InsertOutcomes(calls[c])
  /\ scans' = IF outcome # "ok" THEN scans
              ELSE Append(SelectSeq(scans, LAMBDA r :
                            r.product_no # calls[c].request.product_no),
                          StoredScan(calls[c].request, c, now))
  /\ calls' = [calls EXCEPT ![c] =
       [@ EXCEPT !.pc = "done", !.toast = AfterRecordScan(calls[c].branch, outcome),
                 !.insert = outcome]]
  /\ loading' = FALSE
  /\ UNCHANGED <<products, now, user, productNo, verificationStatus,
                 productDetails, codec, scanner, canon>>

\* A faulty variant of InsertReturns: the stored record takes the place of
\* the last record of the log.
InsertReturnsOverwrite(c, outcome) ==
  /\ c \in 1..Len(calls)
  /\ calls[c].pc = "insert"
  /\ outcome \in InsertOutcomes(calls[c])
  /\ scans' = IF outcome # "ok" THEN scans
              ELSE IF scans = <<>> THEN <<StoredScan(calls[c].request, c, now)>>
              ELSE [scans EXCEPT ![Len(scans)] = StoredScan(calls[c].request, c, now)]
  /\ calls' = [calls EXCEPT ![c] =
       [@ EXCEPT !.pc = "done", !.toast = AfterRecordScan(calls[c].branch, outcome),
                 !.insert = outcome]]
  /\ loading' = FALSE
  /\ UNCHANGED <<products, now, user, productNo, verificationStatus,
                 productDetails, codec, scanner, canon>>

\* recordScan returns and the branch ends (part_006:373-379, 388-394,
\* 410-413, 417-421, 427-430, 440).
InsertReturns(c, outcome) ==
  /\ c \in 1..Len(calls)
  /\ calls[c].pc = "insert"
  /\ outcome \in InsertOutcomes(calls[c])
  /\ scans' = IF outcome = "ok"
              THEN Append(scans, StoredScan(calls[c].request, c, now))
              ELSE scans
  /\ calls' = [calls EXCEPT ![c] =
       [@ EXCEPT !.pc = "done", !.toast = AfterRecordScan(calls[c].branch, outcome),
                 !.insert = outcome]]
  /\ loading' = FALSE
  /\ UNCHANGED <<products, now, user, productNo, verificationStatus,
                 productDetails, codec, scanner, canon>>

(***************************************************************************)
(* ScanProduct: handleQRScan, handleManualSearch (part_006:459-476)        *)
(***************************************************************************)

\* handleQRScan (part_006:459-470); what it leaves of the scanner that
\* called it is said by the caller.
handleQRScan(data) ==
  /\ Len(calls) < MaxCalls
  /\ LET args == QRArguments(data, DecodeTable(data))
     IN  /\ productNo' = args.productNumber
         /\ verifyProduct("qr", data, args.productNumber, args.qrHash)
  /\ UNCHANGED <<products, scans, now, user, codec, canon>>

\* The manual form is on the page: the result view takes its place while
\* the status is set (part_006:516, 603).
FormShown == verificationStatus = NullStatus

\* The manual form's input (onChange, setProductNo).
TypeProductNo(text) ==
  /\ Len(calls) < MaxCalls
  /\ FormShown
  /\ productNo # JSString(text)
  /\ productNo' = JSString(text)
  /\ UNCHANGED <<products, scans, now, user, verificationStatus,
                 productDetails, loading, calls, codec, scanner, canon>>

\* String.prototype.trim on the ASCII whitespace the inputs hold.
RECURSIVE TrimStart(_)
TrimStart(s) ==
  IF s # <<>> /\ IsAsciiWhitespace(Head(s)) THEN TrimStart(Tail(s)) ELSE s
RECURSIVE TrimEnd(_)
TrimEnd(s) ==
  IF s # <<>> /\ IsAsciiWhitespace(s[Len(s)]) THEN TrimEnd(SubSeq(s, 1, Len(s) - 1)) ELSE s
trim(s) == TrimEnd(TrimStart(s))

\* handleManualSearch: nothing for a blank product number (and productNo
\* that is no string, after a scan set it so, makes .trim() throw before
\* anything is done); else verifyProduct on the trimmed number. The form
\* is submitted from its button, which is disabled while loading
\* (part_006:618).
handleManualSearch ==
  /\ Len(calls) < MaxCalls
  /\ FormShown
  /\ ~loading
  /\ IF productNo.t # "string" \/ trim(productNo.s) = <<>>
     THEN UNCHANGED pageVars
     ELSE /\ verifyProduct("manual", productNo.s, JSString(trim(productNo.s)), JSUndefined)
          /\ UNCHANGED productNo
  /\ UNCHANGED <<products, scans, now, user, codec, scanner, canon>>

\* resetScan (part_006:478-482), from the button of the result view.
resetScan ==
  /\ Len(calls) < MaxCalls
  /\ ~FormShown
  /\ verificationStatus' = NullStatus
  /\ productDetails' = JSNull
  /\ productNo' = JSString(<<>>)
  /\ UNCHANGED <<products, scans, now, user, loading, calls, codec, scanner, canon>>

(***************************************************************************)
(* ProductManagement: handleSubmit, handleDelete                           *)
(***************************************************************************)

\* A faulty variant of handleSubmit: an update stores the form's attributes
\* and leaves the row's fingerprint as it was.
handleSubmitKeepsHash(formData, editing) ==
  LET qrPayload == TokenTable(formData)
      row       == ProductRow(formData, IF editing = JSNull THEN HashTable(formData)
                                        ELSE editing.qr_hash)
      others    == IF editing = JSNull THEN products ELSE products \ {editing}
  IN  /\ editing = JSNull \/ editing \in products
      /\ IF qrPayload.ok /\ \A r \in others : r.product_no # row.product_no
         THEN products' = others \cup {row}
         ELSE UNCHANGED products
      /\ UNCHANGED <<scans, now, user, pageVars, codec, scanner, canon>>

\* handleSubmit (ProductManagement.tsx:371-427): the fingerprint and the
\* token are computed from the form, and one write stores the form's five
\* attributes with them. editing is the row being edited, or null for a new
\* product. A token that cannot be encoded ends the submit before the
\* write; a write that breaks the uniqueness of product_no is refused.
handleSubmit(formData, editing) ==
  LET hash      == HashTable(formData)
      qrPayload == TokenTable(formData)
      row       == ProductRow(formData, hash)
      others    == IF editing = JSNull THEN products ELSE products \ {editing}
  IN  /\ editing = JSNull \/ editing \in products
      /\ IF qrPayload.ok /\ \A r \in others : r.product_no # row.product_no
         THEN products' = others \cup {row}
         ELSE UNCHANGED products
      /\ UNCHANGED <<scans, now, user, pageVars, codec, scanner, canon>>

\* handleDelete (ProductManagement.tsx:429-437).
handleDelete(row) ==
  /\ row \in products
  /\ products' = products \ {row}
  /\ UNCHANGED <<scans, now, user, pageVars, codec, scanner, canon>>

\* Time passes.
Tick ==
  /\ now < Opened + MaxTicks
  /\ now' = now + 1
  /\ UNCHANGED <<products, scans, user, pageVars, codec, scanner, canon>>

\* Fewer than MaxInFlight calls are waiting: the next scan or search may
\* come.
Idle == Cardinality(InFlight) < MaxInFlight

Next ==
  \/ \E d \in ScanInputs : Idle /\ handleQRScan(d) /\ UNCHANGED scanner
  \/ \E t \in TypedInputs : TypeProductNo(t)
  \/ Idle /\ handleManualSearch
  \/ resetScan
  \/ \E c \in 1..MaxCalls, o \in {"data", "error", "throw"} : LookupReturns(c, o)
  \/ \E c \in 1..MaxCalls, o \in {"ok", "throw"} : HashReturns(c, o)
  \/ \E c \in 1..MaxCalls, o \in {"skipped", "ok", "error", "throw"} : InsertReturns(c, o)
  \/ \E f \in FormData : handleSubmit(f, JSNull)
  \/ \E f \in FormData, r \in products : handleSubmit(f, r)
  \/ \E r \in products : handleDelete(r)
  \/ Tick

Spec == Init /\ [][Next]_vars

(***************************************************************************)
(* Overlapping verifications: scans arrive while earlier calls are still   *)
(* waiting for the lookup, the digest or the insert                        *)
(***************************************************************************)

\* The product form and the scans of the overlapping runs: product P1 with
\* either expiry date; its two tokens, its bare number and an unregistered
\* number.
OverlapFormData == {f \in FormData : f.product_no = P1}
OverlapScanInputs == {TokenTable(f).v : f \in OverlapFormData} \cup {P1, P9}

NextOverlap ==
  \/ \E d \in OverlapScanInputs : handleQRScan(d) /\ UNCHANGED scanner
  \/ \E c \in 1..MaxCalls, o \in {"data", "error", "throw"} : LookupReturns(c, o)
  \/ \E c \in 1..MaxCalls, o \in {"ok", "throw"} : HashReturns(c, o)
  \/ \E c \in 1..MaxCalls, o \in {"skipped", "ok", "error", "throw"} : InsertReturns(c, o)
  \/ \E f \in OverlapFormData : handleSubmit(f, JSNull)
  \/ \E f \in OverlapFormData, r \in products : handleSubmit(f, r)
  \/ \E r \in products : handleDelete(r)
  \/ Tick

SpecOverlap == Init /\ [][NextOverlap]_vars

(***************************************************************************)
(* The token codec on its own: encodeQRPayload and decodeQRPayload applied *)
(* to bounded inputs (hash.ts:41-52)                                       *)
(***************************************************************************)

\* The longest string over CodecAlphabet handed to decodeQRPayload.
MaxGarbageLen == 2

\* The fingerprints the codec is given: those of the form's products.
CodecHashes == {HashTable(f) : f \in FormData}

\* The product numbers the codec is given: plain, empty, with a quotation
\* mark, a backslash, a space, the separator, a Latin-1 letter (e acute)
\* and a letter beyond Latin-1 (capital omega).
CodecProductNos ==
  {P1, <<>>, <<80, 34, 49>>, <<80, 92, 49>>, <<32, 80, 49>>, <<80, 124, 49>>,
   <<233>>, POmega}

CodecAlphabet == {Str(<<c>>)[1] : c \in {"N", "Q", "=", "e", "3", "0"}}

\* Every string over alphabet of length len.
RECURSIVE StringsOfLen(_, _)
StringsOfLen(alphabet, len) ==
  IF len = 0 THEN {<<>>}
  ELSE {Append(s, c) : s \in StringsOfLen(alphabet, len - 1), c \in alphabet}

\* JSON texts that are no token: a number, an empty object, null, a string,
\* an array, objects that lack one field or hold a number in it.
NonTokenTexts ==
  {Str(<<"5">>), Str(<<"{", "}">>), Str(<<"n", "u", "l", "l">>),
   <<34, 120, 34>>, Str(<<"[", "1", "]">>),
   <<123, 34>> \o KeyHash \o <<34, 58, 34, 97, 34, 125>>,
   <<123, 34>> \o KeyProductNo \o <<34, 58, 34, 80, 49, 34, 125>>,
   <<123, 34>> \o KeyHash \o <<34, 58, 49, 44, 34>> \o KeyProductNo \o <<34, 58, 50, 125>>}

\* What decodeQRPayload is given besides the tokens encodeQRPayload made:
\* short strings, the base64 of JSON texts that are no token, and base64
\* with a character outside its alphabet.
GarbageInputs ==
  UNION {StringsOfLen(CodecAlphabet, n) : n \in 0..MaxGarbageLen}
  \cup {btoa(t).v : t \in NonTokenTexts}
  \cup {Str(<<"!", "!", "!", "!">>), P1, P9}

CodecEncodePairs ==
  {<<h, no, encodeQRPayload(QRPayload(h, no))>> : h \in CodecHashes, no \in CodecProductNos}
CodecEncodeTable(h, no) == (CHOOSE p \in CodecEncodePairs : p[1] = h /\ p[2] = no)[3]
CodecTokens == {p[3].v : p \in {q \in CodecEncodePairs : q[3].ok}}
CodecDecodePairs == {<<d, decodeQRPayload(d)>> : d \in GarbageInputs \cup CodecTokens}
CodecDecodeTable(d) == (CHOOSE p \in CodecDecodePairs : p[1] = d)[2]

\* encodeQRPayload({ hash, product_no }).
CodecEncode(h, no) ==
  LET token == CodecEncodeTable(h, no)
  IN  /\ codec' = [op |-> "encode", hash |-> h, product_no |-> no, input |-> <<>>,
                   threw |-> ~token.ok, token |-> IF token.ok THEN token.v ELSE <<>>,
                   result |-> JSUndefined]
      /\ UNCHANGED <<products, scans, now, user, pageVars, scanner, canon>>

\* decodeQRPayload on the token the last encodeQRPayload returned.
CodecDecodeToken ==
  /\ codec.op = "encode"
  /\ ~codec.threw
  /\ codec' = [codec EXCEPT !.op = "roundtrip", !.input = codec.token,
                            !.result = CodecDecodeTable(codec.token)]
  /\ UNCHANGED <<products, scans, now, user, pageVars, scanner, canon>>

\* decodeQRPayload on a string that encodeQRPayload did not make.
CodecDecode(input) ==
  /\ codec' = [NoCodec EXCEPT !.op = "decode", !.input = input,
                              !.result = CodecDecodeTable(input)]
  /\ UNCHANGED <<products, scans, now, user, pageVars, scanner, canon>>

NextCodec ==
  \/ \E h \in CodecHashes, no \in CodecProductNos : CodecEncode(h, no)
  \/ CodecDecodeToken
  \/ \E d \in GarbageInputs : CodecDecode(d)

SpecCodec == Init /\ [][NextCodec]_vars

(***************************************************************************)
(* QRScanner: startScanning, stopScanning and the success callback         *)
(* (QRScanner.tsx:27-68), with the scan page behind onScan                 *)
(***************************************************************************)

\* What the camera may be pointed at: one of the two tokens of product P1.
CameraTexts == {TokenTable(f).v : f \in OverlapFormData}

\* startScanning up to `await scannerRef.current.start(...)` (QRScanner.tsx
\* 27-52); the Start Camera button is there while isScanning is false.
startScanning(text) ==
  /\ ~scanner.isScanning
  /\ scanner.lib = "off"
  /\ scanner' = [lib |-> "starting", isScanning |-> FALSE, text |-> text, delivered |-> 0]
  /\ UNCHANGED <<products, scans, now, user, pageVars, codec, canon>>

\* start() resolves and the component shows the scanning state
\* (QRScanner.tsx:54-55), or it rejects and onError is called (56-59).
StartReturns(ok) ==
  /\ scanner.lib = "starting"
  /\ scanner' = IF ok THEN [scanner EXCEPT !.lib = "on", !.isScanning = TRUE]
                 ELSE [scanner EXCEPT !.lib = "off"]
  /\ UNCHANGED <<products, scans, now, user, pageVars, codec, canon>>

\* The success callback given to start() (QRScanner.tsx:47-50): onScan,
\* which is the page's handleQRScan (part_006:595), then stopScanning,
\* which calls stop() and is not awaited. Html5Qrcode calls the callback
\* for a frame it has decoded; the component has nothing of its own that
\* keeps a frame decoded after stop() was called and before stop() has
\* completed from reaching onScan.
SuccessCallback ==
  /\ scanner.lib \in {"on", "stopping"}
  /\ handleQRScan(scanner.text)
  /\ scanner' = [scanner EXCEPT !.lib = "stopping", !.delivered = @ + 1]

\* stopScanning from the Stop button, up to `await scannerRef.current
\* .stop()` (QRScanner.tsx:62-64).
stopScanning ==
  /\ scanner.isScanning
  /\ scanner.lib = "on"
  /\ scanner' = [scanner EXCEPT !.lib = "stopping"]
  /\ UNCHANGED <<products, scans, now, user, pageVars, codec, canon>>

\* stop() resolves (QRScanner.tsx:66-67).
StopReturns ==
  /\ scanner.lib = "stopping"
  /\ scanner' = [scanner EXCEPT !.lib = "off", !.isScanning = FALSE]
  /\ UNCHANGED <<products, scans, now, user, pageVars, codec, canon>>

NextScanner ==
  \/ \E t \in CameraTexts : startScanning(t)
  \/ \E ok \in BOOLEAN : StartReturns(ok)
  \/ SuccessCallback
  \/ stopScanning
  \/ StopReturns
  \/ \E c \in 1..MaxCalls, o \in {"data", "error", "throw"} : LookupReturns(c, o)
  \/ \E c \in 1..MaxCalls, o \in {"ok", "throw"} : HashReturns(c, o)
  \/ \E c \in 1..MaxCalls, o \in {"skipped", "ok", "error", "throw"} : InsertReturns(c, o)
  \/ \E f \in OverlapFormData : handleSubmit(f, JSNull)

SpecScanner == Init /\ [][NextScanner]_vars

(***************************************************************************)
(* The canonical text on its own: the template string of                   *)
(* generateProductHash and its encoding applied to pairs of attribute sets *)
(* (hash.ts:9-11)                                                          *)
(***************************************************************************)

\* What a field may hold: nothing, a letter, the delimiter.
CanonFields == {<<>>, Str(<<"a">>), Str(<<"|">>)}

CanonTuples ==
  {Attributes(no, name, brand, mfg, exp) :
     no \in CanonFields, name \in CanonFields, brand \in CanonFields,
     mfg \in CanonFields, exp \in CanonFields}

\* dataString and encoder.encode(dataString) on them, computed once.
CanonPairs == {<<f, dataString(f), TextEncode(dataString(f))>> : f \in CanonTuples}
CanonTable(f) == CHOOSE p \in CanonPairs : p[1] = f

\* The digest input is built for two attribute sets.
BuildBoth(a, b) ==
  /\ canon' = [left |-> a, right |-> b,
               leftText |-> CanonTable(a)[2], rightText |-> CanonTable(b)[2],
               leftBytes |-> CanonTable(a)[3], rightBytes |-> CanonTable(b)[3]]
  /\ UNCHANGED <<products, scans, now, user, pageVars, codec, scanner>>

\* One pair is drawn and built.
NextCanon ==
  /\ canon = NoCanon
  /\ \E a \in CanonTuples, b \in CanonTuples : BuildBoth(a, b)

SpecCanon == Init /\ [][NextCanon]_vars

(***************************************************************************)
(* Properties of verifyProduct                                             *)
(***************************************************************************)

Calls == 1..Len(calls)

\* The rows of scans that call c's insert stored.
RowsOf(c) == {i \in 1..Len(scans) : scans[i].id = c}

\* A fingerprint was passed to the call: a string that is not empty (the
\* page's own test, `if (qrHash)`, takes the empty string for none).
Supplied(qrHash) == qrHash.t = "string" /\ qrHash.s # <<>>

\* A step of verifyProduct threw in call c.
CallThrew(c) == calls[c].lookup = "throw" \/ calls[c].hashed = "throw"

\* The call read a product whose expiry date was before the clock reading
\* of the call's expiry check.
FoundExpired(c) ==
  /\ calls[c].product # JSNull
  /\ NewDate(calls[c].product.expiry_date) < calls[c].clock

\* The fingerprint recomputed from the five attributes the call read.
Recomputed(c) == HashTable(RowAttributes(calls[c].product))

\* C1: a call that found its product, not expired, was given a fingerprint
\* and recomputed the product's fingerprint has status original if the
\* given fingerprint equals both the recomputed and the stored one, and
\* status fake in every other case.
TheoremC1 ==
  \A c \in Calls :
    (/\ calls[c].product # JSNull
     /\ ~FoundExpired(c)
     /\ Supplied(calls[c].qrHash)
     /\ calls[c].hashed = "ok")
    => calls[c].status =
         IF /\ calls[c].qrHash.s = Recomputed(c)
            /\ calls[c].qrHash.s = calls[c].product.qr_hash
         THEN "original" ELSE "fake"

\* One call was given the fingerprint of the product it read and ended
\* original, another was given a different one and ended fake.
WitnessC1 ==
  \E c, d \in Calls :
    /\ calls[c].pc = "done" /\ calls[c].hashed = "ok"
    /\ calls[c].qrHash.s = calls[c].product.qr_hash
    /\ calls[c].status = "original"
    /\ calls[d].pc = "done" /\ calls[d].hashed = "ok"
    /\ calls[d].qrHash.s # calls[d].product.qr_hash
    /\ calls[d].status = "fake"

\* C2: a call that found a product whose expiry date is past has status
\* expired and the flagged reason 'Product expired', whatever fingerprint
\* it was given, and never computes a fingerprint.
TheoremC2 ==
  \A c \in Calls :
    FoundExpired(c) =>
      /\ calls[c].status = "expired"
      /\ calls[c].hashed = "none"
      /\ calls[c].request # JSNull =>
           /\ calls[c].request.is_fake
           /\ calls[c].request.verification_result = "Product expired"

\* A call given the stored fingerprint of an expired product ended expired.
WitnessC2 ==
  \E c \in Calls :
    /\ calls[c].pc = "done"
    /\ FoundExpired(c)
    /\ calls[c].qrHash = JSString(calls[c].product.qr_hash)
    /\ calls[c].status = "expired"

\* The lookup of call c returns in this step, having searched a table with
\* no row for the call's product number.
LookupFindsNothing(c) ==
  /\ calls[c].pc = "lookup"
  /\ calls'[c].lookup = "data"
  /\ \A r \in products : r.product_no # ToText(calls[c].productNumber)

\* C3 (as the code has it): when the lookup returns and no product has the
\* call's number, the status is unknown, the call holds no product and
\* computes no fingerprint, and one flagged request 'Product not found in
\* database' for that number is made; the record is in the log exactly when
\* the insert stored it.
TheoremC3 ==
  /\ [][\A c \in Calls :
          LookupFindsNothing(c) =>
            /\ calls'[c].status = "unknown"
            /\ verificationStatus' = "unknown"
            /\ calls'[c].product = JSNull
            /\ calls'[c].hashed = "none"
            /\ calls'[c].request =
                 ScanRow(calls[c].productNumber, calls[c].user, TRUE,
                         "Product not found in database")]_vars
  /\ [](\A c \in Calls :
          (calls[c].pc = "done" /\ calls[c].status = "unknown") =>
            /\ calls[c].hashed = "none"
            /\ Cardinality(RowsOf(c)) = (IF calls[c].insert = "ok" THEN 1 ELSE 0)
            /\ \A i \in RowsOf(c) :
                 /\ scans[i].is_fake
                 /\ scans[i].product_no = calls[c].productNumber)

\* A call for an unregistered number ended unknown with its flagged record
\* in the log, and another ended unknown with no record because the insert
\* failed.
WitnessC3 ==
  \E c, d \in Calls :
    /\ calls[c].pc = "done" /\ calls[c].lookup = "data" /\ calls[c].status = "unknown"
    /\ calls[c].insert = "ok" /\ RowsOf(c) # {}
    /\ calls[d].pc = "done" /\ calls[d].lookup = "data" /\ calls[d].status = "unknown"
    /\ calls[d].insert \in {"error", "throw"} /\ RowsOf(d) = {}

\* C3 as stated: every completed call whose lookup found no product has
\* status unknown, holds no product, and its flagged record is in the log.
CounterexampleC3 ==
  \A c \in Calls :
    (calls[c].pc = "done" /\ calls[c].lookup = "data" /\ calls[c].product = JSNull) =>
      /\ calls[c].status = "unknown"
      /\ calls[c].hashed = "none"
      /\ \E i \in RowsOf(c) :
           scans[i].is_fake /\ scans[i].product_no = calls[c].productNumber

\* C4 (as the code has it): a call appends at most one record; a completed
\* call that reached a status asked for one insert and has one record if
\* the insert stored it and none otherwise; a call that threw asked for no
\* insert and has no record; the log is no longer than the calls are many.
TheoremC4 ==
  /\ \A i \in 1..Len(scans) : scans[i].id \in Calls
  /\ Len(scans) <= Len(calls)
  /\ \A c \in Calls :
       /\ Cardinality(RowsOf(c)) <= 1
       /\ calls[c].pc # "done" => RowsOf(c) = {}
       /\ (calls[c].pc = "done" /\ calls[c].status \in Statuses /\ calls[c].user # NoUser) =>
            /\ calls[c].insert \in {"ok", "error", "throw"}
            /\ Cardinality(RowsOf(c)) = (IF calls[c].insert = "ok" THEN 1 ELSE 0)
       /\ (calls[c].pc = "done" /\ CallThrew(c)) =>
            /\ calls[c].insert = "none"
            /\ RowsOf(c) = {}

\* Two completed calls, one whose insert stored its record and one whose
\* insert failed, and a log of one record.
WitnessC4 ==
  \E c, d \in Calls :
    /\ calls[c].pc = "done" /\ calls[c].insert = "ok"
    /\ calls[d].pc = "done" /\ calls[d].insert \in {"error", "throw"}
    /\ calls[d].status \in Statuses
    /\ Len(scans) = 1

\* C4 as stated: every completed call has exactly one record in the log.
CounterexampleC4 ==
  \A c \in Calls : calls[c].pc = "done" => Cardinality(RowsOf(c)) = 1

\* C5: a lookup that failed for an infrastructure reason does not give the
\* status unknown, and no 'Product not found in database' record is
\* requested or stored for it.
CounterexampleC5 ==
  \A c \in Calls :
    calls[c].lookup = "error" =>
      /\ calls[c].status # "unknown"
      /\ calls[c].request # JSNull =>
           calls[c].request.verification_result # "Product not found in database"
      /\ \A i \in RowsOf(c) :
           scans[i].verification_result # "Product not found in database"

\* C6 (as the code has it): a completed call has one of the four statuses
\* and its branch's toast, unless the lookup or the fingerprint computation
\* threw: then the status is unset, the toast is 'Verification Error' and
\* no insert was requested.
TheoremC6 ==
  \A c \in Calls :
    calls[c].pc = "done" =>
      IF CallThrew(c)
      THEN /\ calls[c].status = NullStatus
           /\ calls[c].toast = "Verification Error"
           /\ calls[c].request = JSNull
      ELSE /\ calls[c].status \in Statuses
           /\ calls[c].toast # "Verification Error"

\* A call whose lookup threw and a call whose fingerprint computation threw
\* have completed.
WitnessC6 ==
  \E c, d \in Calls :
    /\ calls[c].pc = "done" /\ calls[c].lookup = "throw"
    /\ calls[d].pc = "done" /\ calls[d].hashed = "throw"

\* C6 as stated: every completed call has one of the four statuses.
CounterexampleC6 ==
  \A c \in Calls : calls[c].pc = "done" => calls[c].status \in Statuses

\* C7: the step in which recordScan returns leaves the call's status, set
\* before it, and the page's status as they were, whether the insert
\* stored the record, returned an error or threw, and the call ends with
\* its branch's toast, never with 'Verification Error'.
TheoremC7 ==
  [][\A c \in Calls :
       (calls[c].pc = "insert" /\ calls'[c].pc = "done") =>
         /\ calls[c].status \in Statuses
         /\ calls'[c].status = calls[c].status
         /\ verificationStatus' = verificationStatus
         /\ calls'[c].toast # "Verification Error"
         /\ calls'[c].product = calls[c].product]_vars

\* A call whose insert returned an error and a call whose insert threw
\* have completed with a status.
WitnessC7 ==
  \E c, d \in Calls :
    /\ calls[c].pc = "done" /\ calls[c].insert = "error" /\ calls[c].status \in Statuses
    /\ calls[d].pc = "done" /\ calls[d].insert = "throw" /\ calls[d].status \in Statuses

(***************************************************************************)
(* Properties of the token codec and of handleQRScan                       *)
(***************************************************************************)

\* A token record: an object whose hash and product_no are strings.
IsToken(v) ==
  /\ v.t = "object"
  /\ GetProp(v, KeyHash).t = "string"
  /\ GetProp(v, KeyProductNo).t = "string"

\* C8: decodeQRPayload returns null for every input that is not a token,
\* so whatever it returns is null or a token record.
CounterexampleC8 ==
  codec.op = "decode" => (codec.result = JSNull \/ IsToken(codec.result))

\* C9: encodeQRPayload returns a token for every fingerprint and product
\* number, and decodeQRPayload gives that pair back from it.
CounterexampleC9 ==
  /\ codec.op = "encode" => ~codec.threw
  /\ codec.op = "roundtrip" =>
       /\ IsToken(codec.result)
       /\ GetProp(codec.result, KeyHash) = JSString(codec.hash)
       /\ GetProp(codec.result, KeyProductNo) = JSString(codec.product_no)

\* C10: a scanned string that decodeQRPayload turns into null is verified
\* as a product number with no fingerprint, one that it turns into a token
\* is verified with the token's product number and fingerprint, and a step
\* starts at most one call.
TheoremC10 ==
  /\ [](\A c \in Calls :
          calls[c].via = "qr" =>
            LET payload == DecodeTable(calls[c].data)
            IN  /\ payload = JSNull =>
                     /\ calls[c].productNumber = JSString(calls[c].data)
                     /\ calls[c].qrHash = JSUndefined
                /\ IsToken(payload) =>
                     /\ calls[c].productNumber = GetProp(payload, KeyProductNo)
                     /\ calls[c].qrHash = GetProp(payload, KeyHash))
  /\ [][Len(calls') <= Len(calls) + 1]_vars

\* One scan was no token and one was a token with a fingerprint.
WitnessC10 ==
  \E c, d \in Calls :
    /\ calls[c].via = "qr" /\ DecodeTable(calls[c].data) = JSNull
    /\ calls[c].qrHash = JSUndefined
    /\ calls[d].via = "qr" /\ IsToken(DecodeTable(calls[d].data))
    /\ Supplied(calls[d].qrHash)

(***************************************************************************)
(* Properties of the product table and of the scan records                 *)
(***************************************************************************)

\* The five attributes in their order, joined by '|'.
CanonicalText(r) ==
  r.product_no \o <<124>> \o r.product_name \o <<124>> \o r.brand \o <<124>>
    \o r.manufacture_date \o <<124>> \o r.expiry_date

\* The hexadecimal SHA-256 of the canonical text, for the attributes a row
\* can hold.
CanonicalPairs == {<<f, hashHex(SHA256(TextEncode(CanonicalText(f))))>> : f \in FormData}
CanonicalFingerprint(r) == (CHOOSE p \in CanonicalPairs : p[1] = RowAttributes(r))[2]

\* C11: every stored product's qr_hash is the fingerprint of the five
\* attributes the row holds, and every row a write puts into the table
\* carries the fingerprint of its own attributes.
TheoremC11 ==
  /\ [](\A r \in products : r.qr_hash = CanonicalFingerprint(r))
  /\ [][\A r \in products' \ products : r.qr_hash = CanonicalFingerprint(r)]_vars

\* A call read a product whose stored attributes and fingerprint have both
\* changed since.
WitnessC11 ==
  \E c \in Calls : \E r \in products :
    /\ calls[c].product # JSNull
    /\ r.product_no = calls[c].product.product_no
    /\ r.expiry_date # calls[c].product.expiry_date
    /\ r.qr_hash # calls[c].product.qr_hash
    /\ r.qr_hash = CanonicalFingerprint(r)

\* The lookup of call c returns in this step with the row of a product
\* that is not expired at this step's clock reading, and the call was
\* given no fingerprint.
LookupFindsFreshNoHash(c) ==
  /\ calls[c].pc = "lookup"
  /\ calls'[c].lookup = "data"
  /\ calls[c].qrHash = JSUndefined
  /\ \E r \in products :
       /\ r.product_no = ToText(calls[c].productNumber)
       /\ ~(NewDate(r.expiry_date) < now)

\* C12: a call without a fingerprint whose lookup returns a registered
\* product that is not expired gets status original at once, with no
\* fingerprint computed, and requests the unflagged record 'Manual
\* verification - Product exists'; a record stored for such a call is not
\* flagged.
TheoremC12 ==
  /\ [][\A c \in Calls :
          LookupFindsFreshNoHash(c) =>
            /\ calls'[c].status = "original"
            /\ verificationStatus' = "original"
            /\ calls'[c].pc = "insert"
            /\ calls'[c].hashed = "none"
            /\ calls'[c].request =
                 ScanRow(calls[c].productNumber, calls[c].user, FALSE,
                         "Manual verification - Product exists")]_vars
  /\ [](\A c \in Calls :
          (/\ calls[c].product # JSNull
           /\ ~FoundExpired(c)
           /\ calls[c].qrHash = JSUndefined) =>
            /\ calls[c].status = "original"
            /\ calls[c].hashed = "none"
            /\ \A i \in RowsOf(c) : ~scans[i].is_fake)

\* A manual search for a registered product ended original and its
\* unflagged record is in the log.
WitnessC12 ==
  \E c \in Calls :
    /\ calls[c].via = "manual"
    /\ calls[c].pc = "done"
    /\ calls[c].qrHash = JSUndefined
    /\ calls[c].product # JSNull
    /\ calls[c].status = "original"
    /\ \E i \in RowsOf(c) : ~scans[i].is_fake

\* The reason that goes with a call's outcome: its status, and for status
\* original whether the fingerprint was compared.
ReasonFor(c) ==
  CASE calls[c].status = "unknown" -> "Product not found in database"
    [] calls[c].status = "expired" -> "Product expired"
    [] calls[c].status = "fake"    -> "Hash mismatch - Fake"
    [] calls[c].status = "original" /\ calls[c].hashed = "ok" -> "Hash verified - Original"
    [] calls[c].status = "original" /\ calls[c].hashed # "ok" ->
         "Manual verification - Product exists"
    [] OTHER -> "none"

TheReasons ==
  {"Product not found in database", "Product expired", "Hash mismatch - Fake",
   "Hash verified - Original", "Manual verification - Product exists"}

\* C13: every record in the log, and every record a call asks to insert,
\* is flagged exactly when its call's status is unknown, expired or fake,
\* unflagged exactly when the status is original, and carries the reason
\* of the branch, one of five different texts.
TheoremC13 ==
  /\ Cardinality(TheReasons) = 5
  /\ \A c \in Calls :
       calls[c].request # JSNull =>
         /\ calls[c].request.is_fake <=> calls[c].status \in {"unknown", "expired", "fake"}
         /\ ~calls[c].request.is_fake <=> calls[c].status = "original"
         /\ calls[c].request.verification_result = ReasonFor(c)
         /\ calls[c].request.verification_result \in TheReasons
  /\ \A i \in 1..Len(scans) :
       /\ scans[i].is_fake <=> calls[scans[i].id].status \in {"unknown", "expired", "fake"}
       /\ ~scans[i].is_fake <=> calls[scans[i].id].status = "original"
       /\ scans[i].verification_result = ReasonFor(scans[i].id)

\* The log holds the unflagged record of a manual check and the flagged
\* record of a fingerprint mismatch.
WitnessC13 ==
  \E i, j \in 1..Len(scans) :
    /\ ~scans[i].is_fake
    /\ scans[i].verification_result = "Manual verification - Product exists"
    /\ scans[j].is_fake
    /\ scans[j].verification_result = "Hash mismatch - Fake"

(***************************************************************************)
(* Properties of overlapping verifications                                 *)
(***************************************************************************)

\* The status of a call run alone, from what the call itself was given,
\* read and was answered: its fingerprint argument, the row its lookup
\* returned, the clock reading of its expiry check, and whether its lookup
\* or digest failed.
StatusAlone(c) ==
  IF calls[c].lookup = "throw" THEN NullStatus
  ELSE IF calls[c].product = JSNull THEN "unknown"
  ELSE IF NewDate(calls[c].product.expiry_date) < calls[c].clock THEN "expired"
  ELSE IF ~Supplied(calls[c].qrHash) THEN "original"
  ELSE IF calls[c].hashed = "throw" THEN NullStatus
  ELSE IF /\ calls[c].qrHash.s = Recomputed(c)
          /\ calls[c].qrHash.s = calls[c].product.qr_hash
  THEN "original" ELSE "fake"

\* C14: in every interleaving, a completed call's status is the status of
\* the same call run alone on what it read, the record stored for it holds
\* its own product number, flag and reason, every call whose insert stored
\* a record has exactly that one record, and a step leaves every record
\* already in the log where and as it was.
TheoremC14 ==
  /\ [](\A c \in Calls :
          calls[c].pc = "done" =>
            /\ calls[c].status = StatusAlone(c)
            /\ Cardinality(RowsOf(c)) = (IF calls[c].insert = "ok" THEN 1 ELSE 0)
            /\ \A i \in RowsOf(c) :
                 /\ scans[i].product_no = calls[c].productNumber
                 /\ scans[i].verification_result = ReasonFor(c)
                 /\ scans[i].is_fake <=> calls[c].status # "original")
  /\ [][/\ Len(scans') >= Len(scans)
        /\ SubSeq(scans', 1, Len(scans)) = scans]_vars

\* Two calls that waited for their inserts at the same time have both
\* completed with different statuses, and both records are in the log.
WitnessC14 ==
  \E c, d \in Calls :
    /\ c < d
    /\ calls[c].pc = "done" /\ calls[d].pc = "done"
    /\ calls[c].status # calls[d].status
    /\ calls[c].status \in Statuses /\ calls[d].status \in Statuses
    /\ RowsOf(c) # {} /\ RowsOf(d) # {}
    /\ \E i \in RowsOf(c), j \in RowsOf(d) : j < i

(***************************************************************************)
(* Properties of the scan log                                              *)
(***************************************************************************)

\* C15: no step changes or removes a record of the log: every record is at
\* its place, unchanged, after the step; what a step adds comes last; and
\* the policies on scans grant no update and no delete.
TheoremC15 ==
  /\ [][\A i \in 1..Len(scans) : i <= Len(scans') /\ scans'[i] = scans[i]]_vars
  /\ [](ScansGranted \cap {"UPDATE", "DELETE"} = {})
  /\ [](ScansGranted = {"SELECT", "INSERT"})

\* The record of an earlier call is in the log, unchanged, before the
\* record of a later call for the same product number.
WitnessC15 ==
  \E c, d \in Calls :
    /\ c < d
    /\ calls[c].pc = "done" /\ calls[d].pc = "done"
    /\ calls[c].productNumber = calls[d].productNumber
    /\ Len(scans) = 2
    /\ scans[1] = StoredScan(calls[c].request, c, scans[1].scan_time)
    /\ scans[2].id = d

\* How far a call has come: waiting for the lookup, for the digest, for the
\* insert, returned.
Rank(pc) ==
  CASE pc = "lookup" -> 0
    [] pc = "hash"   -> 1
    [] pc = "insert" -> 2
    [] pc = "done"   -> 3

\* C16: every answer a call receives moves it forward, so its lookup is
\* answered once and its insert is asked once, a returned call does
\* nothing more, a call has at most one record, and the log never holds
\* more records than there are calls, whether the calls completed, failed
\* or are still waiting.
TheoremC16 ==
  /\ [][\A c \in Calls :
          calls'[c] # calls[c] => Rank(calls'[c].pc) > Rank(calls[c].pc)]_vars
  /\ [][Len(scans') <= Len(scans) + 1]_vars
  /\ [](/\ Len(scans) <= Len(calls)
        /\ \A c \in Calls :
             /\ Cardinality(RowsOf(c)) <= 1
             /\ RowsOf(c) # {} => calls[c].insert = "ok"
             /\ calls[c].lookup = "none" => calls[c].pc = "lookup")

\* One call failed at its lookup, another has its status and still waits
\* for its insert, and the log is empty.
WitnessC16 ==
  \E c, d \in Calls :
    /\ calls[c].pc = "done" /\ calls[c].lookup = "throw"
    /\ calls[d].pc = "insert" /\ calls[d].status \in Statuses
    /\ scans = <<>>

(***************************************************************************)
(* Properties of generateProductHash and isProductExpired                  *)
(***************************************************************************)

\* The rows whose fingerprint was computed at some time and is still to be
\* seen: the rows of the table and the rows the calls read.
ObservedRows ==
  products \cup {calls[c].product : c \in {d \in Calls : calls[d].product # JSNull}}

LookupFinds(c, r) ==
  /\ calls[c].pc = "lookup"
  /\ calls'[c].lookup = "data"
  /\ r \in products
  /\ r.product_no = ToText(calls[c].productNumber)

\* C18: a call whose lookup returns a product gets status expired in that
\* step if and only if the product's expiry instant is strictly before the
\* clock reading; at an equal or later expiry instant the call goes on to
\* the fingerprint (a fingerprint was given) or gets the manual result.
TheoremC18 ==
  /\ [][\A c \in Calls : \A r \in products :
          LookupFinds(c, r) =>
            /\ calls'[c].status = "expired" <=> NewDate(r.expiry_date) < now
            /\ NewDate(r.expiry_date) >= now =>
                 IF Truthy(calls[c].qrHash)
                 THEN calls'[c].pc = "hash" /\ calls'[c].status = NullStatus
                 ELSE calls'[c].pc = "insert" /\ calls'[c].status = "original"]_vars
  /\ [](\A c \in Calls :
          calls[c].product # JSNull =>
            (calls[c].status = "expired"
               <=> NewDate(calls[c].product.expiry_date) < calls[c].clock))

\* One call read a product at the very instant of its expiry and did not
\* end expired; another read it one tick later and ended expired.
WitnessC18 ==
  \E c, d \in Calls :
    /\ calls[c].pc = "done" /\ calls[c].product # JSNull
    /\ NewDate(calls[c].product.expiry_date) = calls[c].clock
    /\ calls[c].status \in {"original", "fake"}
    /\ calls[d].pc = "done" /\ calls[d].product # JSNull
    /\ NewDate(calls[d].product.expiry_date) + 1 = calls[d].clock
    /\ calls[d].status = "expired"

\* C19: the record a call asks to insert has the four fields product_no,
\* user_id, is_fake and verification_result and no other; the stored
\* record has them as submitted, and its scan_time is the clock reading of
\* the step that stored it.
TheoremC19 ==
  /\ [](\A c \in Calls :
          calls[c].request # JSNull =>
            DOMAIN calls[c].request =
              {"product_no", "user_id", "is_fake", "verification_result"})
  /\ [](\A i \in 1..Len(scans) :
          /\ DOMAIN scans[i] =
               {"product_no", "user_id", "is_fake", "verification_result",
                "id", "scan_time"}
          /\ \A k \in DOMAIN calls[scans[i].id].request :
               scans[i][k] = calls[scans[i].id].request[k])
  /\ [][Len(scans') > Len(scans) => scans'[Len(scans')].scan_time = now]_vars

\* A record was stored one tick after its call read the clock for the
\* expiry check, and carries the later reading.
WitnessC19 ==
  \E i \in 1..Len(scans) :
    /\ calls[scans[i].id].product # JSNull
    /\ scans[i].scan_time > calls[scans[i].id].clock

\* The digest of the canonical text, for the attributes a row can hold.
DigestPairs == {<<f, SHA256(TextEncode(CanonicalText(f)))>> : f \in FormData}
DigestOf(r) == (CHOOSE p \in DigestPairs : p[1] = RowAttributes(r))[2]

\* The characters 0-9 and a-f.
LowerHex == (48..57) \cup (97..102)

\* The lowercase hexadecimal digit of a value below 16.
LowerHexDigit(v) == IF v < 10 THEN 48 + v ELSE 87 + v

\* C21: every fingerprint generateProductHash returned, as the table holds
\* it, has exactly 64 characters, each one of 0-9 and a-f, and its k-th
\* pair of characters is the k-th byte of the 256-bit digest, high digit
\* first, the high digit being 0 for a byte below 16.
TheoremC21 ==
  /\ DigestBytes * 8 = 256
  /\ \A r \in products :
       /\ Len(r.qr_hash) = 64
       /\ \A i \in 1..Len(r.qr_hash) : r.qr_hash[i] \in LowerHex
       /\ Len(DigestOf(r)) = DigestBytes
       /\ \A k \in 1..DigestBytes :
            /\ r.qr_hash[2 * k - 1] = LowerHexDigit(DigestOf(r)[k] \div 16)
            /\ r.qr_hash[2 * k] = LowerHexDigit(DigestOf(r)[k] % 16)
            /\ DigestOf(r)[k] < 16 => r.qr_hash[2 * k - 1] = 48

\* The table holds a fingerprint whose digest has a byte below 16,
\* rendered as two characters with its leading zero, and a byte whose low
\* digit is rendered as a letter.
WitnessC21 ==
  \E r \in products : \E j, k \in 1..DigestBytes :
    /\ DigestOf(r)[j] < 16
    /\ r.qr_hash[2 * j - 1] = 48
    /\ DigestOf(r)[k] % 16 >= 10
    /\ r.qr_hash[2 * k] \in 97..102

\* The call compared fingerprints (it was given one and recomputed it).
FingerprintPath(c) == calls[c].pc = "done" /\ calls[c].hashed = "ok"

\* The call found an unexpired product and compared nothing.
ExistencePath(c) ==
  /\ calls[c].pc = "done"
  /\ calls[c].product # JSNull
  /\ ~FoundExpired(c)
  /\ calls[c].hashed = "none"

\* C20: a call that compared fingerprints and a call that only checked
\* that the product exists never end with the same status value.
CounterexampleC20 ==
  \A c, d \in Calls :
    (FingerprintPath(c) /\ ExistencePath(d)) => calls[c].status # calls[d].status

(***************************************************************************)
(* Properties of tokens: downgrade, staleness, torn reads                  *)
(***************************************************************************)

\* The call came from a scanned string that decodeQRPayload turned into a
\* token record.
TokenScan(c) == calls[c].via = "qr" /\ IsToken(DecodeTable(calls[c].data))

\* C22: a call started by a scanned token that found its product, not
\* expired, has status original only if the token's fingerprint is the
\* stored fingerprint of the product; a token with an empty fingerprint
\* never gives original.
CounterexampleC22 ==
  \A c \in Calls :
    (/\ TokenScan(c)
     /\ calls[c].product # JSNull
     /\ ~FoundExpired(c)
     /\ calls[c].status = "original")
    => GetProp(DecodeTable(calls[c].data), KeyHash) = JSString(calls[c].product.qr_hash)

\* A product and the five products that differ from it in one attribute.
StaleBase == Attributes(P1, Str(<<"W">>), Str(<<"A">>), DateText(0), DateText(3))
StaleVariants ==
  {StaleBase,
   [StaleBase EXCEPT !.product_no = P9],
   [StaleBase EXCEPT !.product_name = Str(<<"X">>)],
   [StaleBase EXCEPT !.brand = Str(<<"B">>)],
   [StaleBase EXCEPT !.manufacture_date = DateText(1)],
   [StaleBase EXCEPT !.expiry_date = DateText(4)]}

\* verifyProductHash on the fingerprint of one of them and the attributes
\* of another, computed once.
StalePairs ==
  {<<f, g, verifyProductHash(JSString(generateProductHash(f)), g)>> :
     f \in StaleVariants, g \in StaleVariants}

UpdatedSinceRead(c) ==
  /\ calls[c].product # JSNull
  /\ calls[c].product \notin products
  /\ \E r \in products : r.product_no = calls[c].product.product_no

\* C24: a write puts whole rows into the table, each with the fingerprint
\* of its own attributes; what a call's lookup returns is one row of the
\* table as it is in that step, and the call keeps that row to its end
\* whatever is written meanwhile; so a call that compares the fingerprint
\* of the row it read gets original, never fake, also when the product was
\* updated between its lookup and its comparison.
TheoremC24 ==
  /\ [](\A r \in ObservedRows : r.qr_hash = HashTable(RowAttributes(r)))
  /\ [][\A c \in Calls :
          /\ (calls[c].pc = "lookup" /\ calls'[c].product # JSNull) =>
               calls'[c].product \in products
          /\ calls[c].pc # "lookup" => calls'[c].product = calls[c].product
          /\ (/\ calls[c].pc = "hash"
              /\ calls'[c].hashed = "ok"
              /\ calls[c].qrHash = JSString(calls[c].product.qr_hash)) =>
               calls'[c].status = "original"]_vars
  /\ [](\A c \in Calls :
          (/\ calls[c].hashed = "ok"
           /\ calls[c].qrHash = JSString(calls[c].product.qr_hash)) =>
            calls[c].status # "fake")

\* A call that was given the fingerprint of the row it read has status
\* original and still waits for its insert, and the table holds another
\* version of the product.
WitnessC24 ==
  \E c \in Calls :
    /\ calls[c].pc = "insert"
    /\ calls[c].hashed = "ok"
    /\ calls[c].qrHash = JSString(calls[c].product.qr_hash)
    /\ calls[c].status = "original"
    /\ UpdatedSinceRead(c)

(***************************************************************************)
(* Properties of the scan page's state                                     *)
(***************************************************************************)

\* C25: when two calls have been made and both have returned, the page's
\* status and product details are the status and the product of one and
\* the same call, and the page does not show status unknown with product
\* details.
CounterexampleC25 ==
  (Len(calls) >= 2 /\ InFlight = {}) =>
    /\ \E c \in Calls :
         /\ verificationStatus = calls[c].status
         /\ productDetails = calls[c].product
    /\ verificationStatus = "unknown" => productDetails = JSNull

\* One call has been made on the page: it runs alone.
RunsAlone == Len(calls) = 1

\* The page has been cleared: resetScan (part_006:478-482) has set the status
\* and the product details back to null.
PageCleared == verificationStatus = NullStatus /\ productDetails = JSNull

\* C27 (as the code has it): for a call that runs alone, once it has its
\* status the page shows that status, with no product details if it is
\* unknown and with the row the lookup returned if it is expired, original
\* or fake, until the user clears the page; and the page holds product
\* details with the status unset only while the call computes the
\* fingerprint and after a call whose fingerprint computation threw.
TheoremC27 ==
  RunsAlone =>
    /\ calls[1].status = "unknown" =>
         \/ verificationStatus = "unknown" /\ productDetails = JSNull
         \/ PageCleared
    /\ calls[1].status \in {"expired", "original", "fake"} =>
         \/ /\ verificationStatus = calls[1].status
            /\ productDetails # JSNull
            /\ productDetails = calls[1].product
         \/ PageCleared
    /\ (verificationStatus = NullStatus /\ productDetails # JSNull) =>
         /\ productDetails = calls[1].product
         /\ \/ calls[1].pc = "hash"
            \/ calls[1].pc = "done" /\ calls[1].hashed = "throw"

\* A lone call has completed with status fake and the page shows the
\* product it read.
WitnessC27 ==
  /\ RunsAlone
  /\ calls[1].pc = "done"
  /\ calls[1].status = "fake"
  /\ verificationStatus = "fake"
  /\ productDetails = calls[1].product
  /\ productDetails # JSNull

\* C27 as stated: for a call that runs alone, the product details are null
\* with status unknown, the looked-up product with status expired,
\* original or fake, and never non-null while the status is unset.
CounterexampleC27 ==
  RunsAlone =>
    /\ (calls[1].pc = "done" /\ verificationStatus = "unknown") => productDetails = JSNull
    /\ (calls[1].pc = "done" /\ verificationStatus \in {"expired", "original", "fake"}) =>
         productDetails = calls[1].product /\ productDetails # JSNull
    /\ verificationStatus = NullStatus => productDetails = JSNull

\* Every answer a call waits for arrives: the promises of the lookup
\* (part_006:364), of the digest (399) and of the insert (448) settle.
AnswersArrive ==
  \A c \in 1..MaxCalls :
    /\ WF_vars(\E o \in {"data", "error", "throw"} : LookupReturns(c, o))
    /\ WF_vars(\E o \in {"ok", "throw"} : HashReturns(c, o))
    /\ WF_vars(\E o \in {"skipped", "ok", "error", "throw"} : InsertReturns(c, o))

SpecAnswered == Spec /\ AnswersArrive

BlankNumber(v) ==
  \/ v.t \in {"undefined", "null"}
  \/ v.t = "string" /\ trim(v.s) = <<>>

\* The form can be submitted: it is shown and its button is not disabled.
CanSubmit == FormShown /\ ~loading /\ Len(calls) < MaxCalls

\* The submit starts a verification.
SubmitVerifies == handleManualSearch /\ Len(calls') = Len(calls) + 1

\* This step starts a call from the manual form.
ManualCallStarts ==
  /\ Len(calls') = Len(calls) + 1
  /\ calls'[Len(calls')].via = "manual"

\* C29: a submit of the form with an empty or whitespace-only product
\* number starts no verification (so no lookup is made, no record written
\* and the status and the product details stay); a submit with any other
\* product number starts a verification of the trimmed product number
\* with no fingerprint.
CounterexampleC29 ==
  /\ [][ManualCallStarts =>
          /\ ~BlankNumber(productNo)
          /\ calls'[Len(calls')].productNumber = JSString(trim(ToText(productNo)))
          /\ calls'[Len(calls')].qrHash = JSUndefined]_vars
  /\ [](CanSubmit => (ENABLED SubmitVerifies <=> ~BlankNumber(productNo)))

(***************************************************************************)
(* Properties of the camera scanner                                        *)
(***************************************************************************)

\* C26: from one start of the camera to the end of the stop it causes,
\* onScan is called at most once, so one scan starts at most one
\* verification.
CounterexampleC26 == scanner.delivered <= 1

(***************************************************************************)
(* Properties of the canonical text                                        *)
(***************************************************************************)

\* No field of the attribute set holds the delimiter.
DelimiterFree(f) ==
  \A k \in DOMAIN f : \A i \in 1..Len(f[k]) : f[k][i] # 124

\* C30: when the canonical texts of two attribute sets with no delimiter
\* in any field are equal, or their encodings are, the two sets are equal
\* field by field.
TheoremC30 ==
  (canon # NoCanon /\ DelimiterFree(canon.left) /\ DelimiterFree(canon.right)) =>
    /\ canon.leftText = canon.rightText =>
         \A k \in DOMAIN canon.left : canon.left[k] = canon.right[k]
    /\ canon.leftBytes = canon.rightBytes =>
         \A k \in DOMAIN canon.left : canon.left[k] = canon.right[k]

\* Two attribute sets without a delimiter that differ only in which of
\* two neighbouring fields holds the letter have different texts.
WitnessC30 ==
  /\ canon # NoCanon
  /\ DelimiterFree(canon.left) /\ DelimiterFree(canon.right)
  /\ canon.left.product_no = Str(<<"a">>) /\ canon.left.product_name = <<>>
  /\ canon.right.product_no = <<>> /\ canon.right.product_name = Str(<<"a">>)
  /\ \A k \in {"brand", "manufacture_date", "expiry_date"} : canon.left[k] = canon.right[k]
  /\ canon.leftText # canon.rightText
  /\ canon.leftBytes # canon.rightBytes

====
